---------------------------- MODULE Spec2Model ----------------------------
(***************************************************************************)
(* iCloud Private Relay IP List Manager (src/src/index.js).                *)
(*                                                                         *)
(* A scheduled run fetches a JSON array of address literals, keeps the     *)
(* entries validateIPv4OrCIDR accepts, finds or creates the list named     *)
(* LIST_NAME and replaces that list's items with the kept entries.         *)
(*                                                                         *)
(* Address literals are sequences of one-character strings, so that the    *)
(* two regular expressions are modelled by what they match.                *)
(***************************************************************************)
EXTENDS Integers, Sequences, FiniteSets, TLC

(***************************************************************************)
(* Bounds of the model.                                                    *)
(***************************************************************************)
MaxFeedLen == 2      \* longest fetched array enumerated exhaustively
MaxRuns    == 2      \* scheduled invocations in one behaviour
NumSlots   == 2      \* invocation slots (concurrently live handlers)
MaxOctet   == 300    \* largest octet value given to the validator
MaxPrefix  == 40     \* largest CIDR suffix given to the validator
MaxPrefix6 == 128    \* largest prefix length given with an IPv6 host

(***************************************************************************)
(* Characters and decimal formatting of the feed's literals.               *)
(***************************************************************************)
DigitChars == <<"0", "1", "2", "3", "4", "5", "6", "7", "8", "9">>

\* the character class [lo-hi], lo and hi digits
CharRange(lo, hi) == {DigitChars[k + 1] : k \in lo..hi}

RECURSIVE Decimal(_)
\* standard decimal form of a natural number, no leading zeros
Decimal(n) ==
    IF n < 10 THEN <<DigitChars[n + 1]>>
    ELSE Decimal(n \div 10) \o <<DigitChars[(n % 10) + 1]>>

\* a.b.c.d from four components that are already character sequences
Dotted(a, b, c, d) == a \o <<".">> \o b \o <<".">> \o c \o <<".">> \o d

\* literal/suffix
WithSuffix(lit, sfx) == lit \o <<"/">> \o sfx

\* a.b.c.d from four numbers
IPv4(a, b, c, d) == Dotted(Decimal(a), Decimal(b), Decimal(c), Decimal(d))

\* a.b.c.d/p from five numbers
CIDR(a, b, c, d, p) == WithSuffix(IPv4(a, b, c, d), Decimal(p))

(***************************************************************************)
(* validateIPv4OrCIDR: the two anchored regular expressions, matched as a  *)
(* set of reachable end positions (position k = "k-1 characters consumed").*)
(***************************************************************************)
\* the character at position k, or "" past the end of the input
At(s, k) == IF k \in 1..Len(s) THEN s[k] ELSE ""

\* OctetEnds with the second alternative written 2[0-5][0-9]
OctetEndsWide(s, k) ==
       (IF At(s, k) = "2" /\ At(s, k + 1) \in CharRange(0, 5) /\ At(s, k + 2) \in CharRange(0, 9)
            THEN {k + 3} ELSE {})
  \cup (IF At(s, k) = "1" /\ At(s, k + 1) \in CharRange(0, 9) /\ At(s, k + 2) \in CharRange(0, 9)
            THEN {k + 3} ELSE {})
  \cup (IF At(s, k) \in CharRange(1, 9) /\ At(s, k + 1) \in CharRange(0, 9)
            THEN {k + 2} ELSE {})
  \cup (IF At(s, k) \in CharRange(0, 9)
            THEN {k + 1} ELSE {})

\* (25[0-5]|2[0-4][0-9]|1[0-9]{2}|[1-9]?[0-9]) starting at position k:
\* the positions right after each way the group can match
OctetEnds(s, k) ==
       (IF At(s, k) = "2" /\ At(s, k + 1) = "5" /\ At(s, k + 2) \in CharRange(0, 5)
            THEN {k + 3} ELSE {})
  \cup (IF At(s, k) = "2" /\ At(s, k + 1) \in CharRange(0, 4) /\ At(s, k + 2) \in CharRange(0, 9)
            THEN {k + 3} ELSE {})
  \cup (IF At(s, k) = "1" /\ At(s, k + 1) \in CharRange(0, 9) /\ At(s, k + 2) \in CharRange(0, 9)
            THEN {k + 3} ELSE {})
  \cup (IF At(s, k) \in CharRange(1, 9) /\ At(s, k + 1) \in CharRange(0, 9)
            THEN {k + 2} ELSE {})
  \cup (IF At(s, k) \in CharRange(0, 9)
            THEN {k + 1} ELSE {})

\* (8|9|[1-2][0-9]|3[0-2]) starting at position k
PrefixEnds(s, k) ==
       (IF At(s, k) \in {"8", "9"}
            THEN {k + 1} ELSE {})
  \cup (IF At(s, k) \in CharRange(1, 2) /\ At(s, k + 1) \in CharRange(0, 9)
            THEN {k + 2} ELSE {})
  \cup (IF At(s, k) = "3" /\ At(s, k + 1) \in CharRange(0, 2) 
            THEN {k + 2} ELSE {})

\* one literal character c consumed from any position of P
AfterChar(s, P, c) == {k + 1 : k \in {p \in P : At(s, p) = c}}

\* (\.octet) consumed from any position of P
DotOctet(s, P) == UNION {OctetEnds(s, k) : k \in AfterChar(s, P, ".")}

\* DottedQuadEnds without the ^ anchor: the quad may start anywhere
DottedQuadEndsAnywhere(s) ==
    UNION {DotOctet(s, DotOctet(s, DotOctet(s, OctetEnds(s, k)))) : k \in 1..(Len(s) + 1)}

\* ^octet(\.octet){3}
DottedQuadEnds(s) ==
    DotOctet(s, DotOctet(s, DotOctet(s, OctetEnds(s, 1))))

\* ipv4Regex.test(input): ^octet(\.octet){3}$
ipv4Regex(s) == (Len(s) + 1) \in DottedQuadEnds(s)

\* cidrRegex.test(input): ^octet(\.octet){3}\/(8|9|[1-2][0-9]|3[0-2])$
cidrRegex(s) ==
    (Len(s) + 1) \in
        UNION {PrefixEnds(s, k) : k \in AfterChar(s, DottedQuadEnds(s), "/")}

validateIPv4OrCIDR(input) == ipv4Regex(input) \/ cidrRegex(input)


(***************************************************************************)
(* Pure steps of the scheduled handler.                                    *)
(***************************************************************************)
\* FilterValid with the filter left out
FilterNothing(ipv4List) == ipv4List

\* ipv4List.filter(validateIPv4OrCIDR)
FilterValid(ipv4List) == SelectSeq(ipv4List, validateIPv4OrCIDR)

\* validIPs.map((ip) => ({ ip }))
ItemsOf(validIPs) == [k \in 1..Len(validIPs) |-> [ip |-> validIPs[k]]]

\* GuardAborts with the guard left out
GuardNever(validIPs) == FALSE

\* if (validIPs.length === 0) return
GuardAborts(validIPs) == Len(validIPs) = 0

(***************************************************************************)
(* Configuration and the remote lists service as the requests address it.  *)
(***************************************************************************)
LIST_NAME  == "icloud_private_relay_egress_ips"
OtherName  == "icloud_private_relay_egress_ips_v6"
ListKind   == "ip"

\* FindByName with a comparison that never holds
FindByNameNever(result, name) == 0

\* FindByName with a callback that tests no name: the first list of the
\* result, whatever it is called
FindFirstAny(result, name) == IF Len(result) = 0 THEN 0 ELSE 1

\* result.find((list) => list.name === env.LIST_NAME): the index of the
\* first list with that name, 0 for undefined
FindByName(result, name) ==
    LET hits == {k \in 1..Len(result) : result[k].name = name}
    IN  IF hits = {} THEN 0 ELSE CHOOSE k \in hits : \A j \in hits : k <= j

\* CreateBody with another name in the body
CreateBodyMisnamed(name) == [name |-> OtherName, kind |-> "ip"]

\* body of the POST that creates the list
CreateBody(name) == [name |-> name, kind |-> ListKind]

\* ListsAfterCreate at a service that keeps names unique by storing a second
\* list of a taken name under another name
ListsAfterCreateRenaming(ls, body) ==
    Append(ls, [id |-> Len(ls) + 1,
                name |-> IF \E k \in 1..Len(ls) : ls[k].name = body.name
                         THEN OtherName ELSE body.name,
                kind |-> body.kind, items |-> <<>>])

\* the service's lists after a POST with that body: a new, empty list with a
\* fresh id
ListsAfterCreate(ls, body) ==
    Append(ls, [id |-> Len(ls) + 1, name |-> body.name, kind |-> body.kind,
                items |-> <<>>])

\* the POST's parsed response: { result: <the new list> }
CreateResponse(ls, body) ==
    [result |-> ListsAfterCreate(ls, body)[Len(ls) + 1]]

\* CreatedId read from the response itself, which has no id: undefined
CreatedIdUnwrapped(response) == 0

\* const { result: newList } = await createResponse.json(); return newList.id
CreatedId(response) == response.result.id

\* ListsAfterPut for a request that adds the body's items to the list's
\* items (POST instead of PUT)
ListsAfterPutAppend(ls, listId, items) ==
    [k \in 1..Len(ls) |->
        IF ls[k].id = listId THEN [ls[k] EXCEPT !.items = @ \o items] ELSE ls[k]]

\* ListsAfterPut for a request that keeps the list's items the body does not
\* mention and then sets the body's
ListsAfterPutMerge(ls, listId, items) ==
    [k \in 1..Len(ls) |->
        IF ls[k].id = listId
        THEN [ls[k] EXCEPT !.items =
                SelectSeq(@, LAMBDA it : \A j \in 1..Len(items) : items[j] /= it) \o items]
        ELSE ls[k]]

\* the service's lists after PUT .../lists/{listId}/items with that body:
\* the addressed list holds exactly the body's items
ListsAfterPut(ls, listId, items) ==
    [k \in 1..Len(ls) |->
        IF ls[k].id = listId THEN [ls[k] EXCEPT !.items = items] ELSE ls[k]]

\* the items of the list with that id (the empty sequence when there is none)
ItemsOfList(ls, listId) ==
    LET hits == {k \in 1..Len(ls) : ls[k].id = listId}
    IN  IF hits = {} THEN <<>> ELSE ls[CHOOSE k \in hits : TRUE].items

\* the address literals held by the list with that id
ContentOf(ls, listId) ==
    LET its == ItemsOfList(ls, listId) IN [k \in 1..Len(its) |-> its[k].ip]

\* ids of the lists with that name
IdsNamed(ls, name) == {ls[k].id : k \in {j \in 1..Len(ls) : ls[j].name = name}}

(***************************************************************************)
(* What the outside world can answer.                                      *)
(***************************************************************************)
\* a response: ok with a readable body, not ok, or ok with a body that
\* response.json() cannot read
Outcomes == {"ok", "notok", "badbody"}

\* entries the enumerated arrays are made of: two the validator accepts and
\* one it rejects
FeedSamples == {IPv4(1, 2, 3, 4), CIDR(1, 2, 3, 0, 24), IPv4(999, 1, 1, 1)}

\* the mixed-validity feed of the end-to-end scenario
ExampleFeed ==
    <<IPv4(1, 2, 3, 4), CIDR(1, 2, 3, 0, 24), IPv4(999, 1, 1, 1),
      CIDR(10, 0, 0, 0, 33)>>

\* every array of at most n samples
ArraysUpTo(n) == UNION {[1..m -> FeedSamples] : m \in 0..n}

\* parsed bodies of the source URL: arrays of strings, or a JSON value that
\* is no array
FeedBodies ==
    {[isArray |-> TRUE, elems |-> a] : a \in ArraysUpTo(MaxFeedLen) \cup {ExampleFeed}}
    \cup {[isArray |-> FALSE, elems |-> <<>>]}

PriorItems == {<<>>, ItemsOf(<<IPv4(9, 9, 9, 9), IPv4(1, 2, 3, 4)>>)}

OtherList(id) ==
    [id |-> id, name |-> OtherName, kind |-> ListKind,
     items |-> ItemsOf(<<IPv4(8, 8, 8, 8)>>)]

NamedList(id, items) ==
    [id |-> id, name |-> LIST_NAME, kind |-> ListKind, items |-> items]

\* the account's lists before the first run
InitialLists ==
    {<<>>, <<OtherList(1)>>}
    \cup {<<OtherList(1), NamedList(2, p)>> : p \in PriorItems}
    \cup {<<NamedList(1, p), OtherList(2), NamedList(3, <<>>)>> : p \in PriorItems}

(***************************************************************************)
(* What the host passes in: the bindings and the inbound requests.         *)
(***************************************************************************)
\* the value of a binding that is not set
Undefined == "undefined"

\* the deployment the README describes: one source URL
SingleFamily ==
    [IP_LIST_SOURCE_URL   |-> "https://source.example/egress-ipv4.json",
     IPV4_LIST_SOURCE_URL |-> Undefined,
     IPV6_LIST_SOURCE_URL |-> Undefined]

\* a deployment with one source URL per address family and no
\* IP_LIST_SOURCE_URL
DualStack ==
    [IP_LIST_SOURCE_URL   |-> Undefined,
     IPV4_LIST_SOURCE_URL |-> "https://source.example/egress-ipv4.json",
     IPV6_LIST_SOURCE_URL |-> "https://source.example/egress-ipv6.json"]

Configurations == {SingleFamily, DualStack}

\* SourceURL reading the per-family binding
SourceURLv4(e) == e.IPV4_LIST_SOURCE_URL

\* the argument of the one fetchIPv4List call: env.IP_LIST_SOURCE_URL
SourceURL(e) == e.IP_LIST_SOURCE_URL

\* an inbound URL: the path as written, cut at its slashes, and the query
NoURL == [segments |-> <<>>, query |-> ""]

Methods == {"GET", "HEAD", "POST", "PUT", "PATCH", "DELETE", "OPTIONS"}

\* paths as written in the request line
RawPaths ==
    {<<>>,                      \* (no path)
     <<"">>,                    \* /
     <<"info">>,                \* /info
     <<"info", "">>,            \* /info/
     <<"INFO">>,                \* /INFO
     <<"information">>,         \* /information
     <<"info", "status">>,      \* /info/status
     <<"", "info">>,            \* //info
     <<".", "info">>,           \* /./info
     <<"%2e", "info">>,         \* /%2e/info
     <<"a", "..", "info">>,     \* /a/../info
     <<"info", ".">>,           \* /info/.
     <<"info", "..">>,          \* /info/..
     <<"%69nfo">>,              \* /%69nfo
     <<"__scheduled">>}         \* /__scheduled

Queries == {"", "cron=0+0+*/14+*+*"}

InboundRequests ==
    {[method |-> m, url |-> [segments |-> p, query |-> q]] :
        m \in Methods, p \in RawPaths, q \in Queries}

SingleDot == {".", "%2e", "%2E"}

DoubleDot == {"..", ".%2e", ".%2E", "%2e.", "%2E.", "%2e%2e", "%2E%2E", "%2e%2E", "%2E%2e"}

RECURSIVE Walk(_, _, _)
\* the URL parser's path state from segment i on: a double-dot segment
\* removes the last segment kept, a single-dot segment is skipped, either
\* leaves an empty segment when it is the last; nothing is decoded
Walk(segs, i, path) ==
    IF i > Len(segs) THEN path
    ELSE LET last == (i = Len(segs))
             seg  == segs[i]
         IN  IF seg \in DoubleDot
             THEN Walk(segs, i + 1,
                       (IF path = <<>> THEN <<>> ELSE SubSeq(path, 1, Len(path) - 1))
                       \o (IF last THEN <<"">> ELSE <<>>))
             ELSE IF seg \in SingleDot
             THEN Walk(segs, i + 1, path \o (IF last THEN <<"">> ELSE <<>>))
             ELSE Walk(segs, i + 1, Append(path, seg))

\* new URL(request.url).pathname, as its segments: /info is <<"info">>, / is
\* <<"">>; the query is no part of it
Pathname(url) ==
    LET path == Walk(url.segments, 1, <<>>)
    IN  IF path = <<>> THEN <<"">> ELSE path

\* the object handleGetRequest serializes
InfoBody ==
    [worker_name |-> "iCloud Private Relay IP List Manager",
     cron_trigger_info |->
        [description |-> "This Worker is scheduled to run every 14 days to fetch and update an IPv4 list.",
         cron_schedule |-> "0 0 */14 * *",
         time_zone |-> "UTC"],
     status |-> "Worker is running"]

\* new Response(body, init): the status defaults to 200, a string body
\* without a Content-Type header is text/plain
JsonResponse(obj) ==
    [status |-> 200, contentType |-> "application/json", body |-> [json |-> obj]]

TextResponse(text, status) ==
    [status |-> status, contentType |-> "text/plain;charset=UTF-8",
     body |-> [text |-> text]]

\* handleGetRequest(request)
handleGetRequest(req) ==
    IF Pathname(req.url) = <<"info">>
    THEN JsonResponse(InfoBody)
    ELSE TextResponse("Not Found", 404)

\* FetchHandler looking at the path before the method
FetchHandlerPathFirst(req) ==
    IF Pathname(req.url) = <<"info">>
    THEN JsonResponse(InfoBody)
    ELSE IF req.method = "GET"
    THEN TextResponse("Not Found", 404)
    ELSE TextResponse("Method Not Allowed", 405)

\* fetch(request, env, ctx)
FetchHandler(req) ==
    IF req.method = "GET"
    THEN handleGetRequest(req)
    ELSE TextResponse("Method Not Allowed", 405)

(***************************************************************************)
(* State.                                                                  *)
(***************************************************************************)
VARIABLES
    lists,        \* the account's lists at the service
    pc,           \* per slot: the run's state
    ipv4List,     \* per slot: the fetched body
    validIPs,     \* per slot: the filtered array
    absent,       \* per slot: the lookup found no list named LIST_NAME
    listId,       \* per slot: the resolved list id (0: none yet)
    requests,     \* per slot: the outbound requests issued so far, in order
    before,       \* per slot: the account's lists when the run started
    started,      \* scheduled invocations so far
    created,      \* creation requests the service has carried out
    lastOutcome,  \* terminal state of the run that returned last
    lastPut,      \* the last replacement the service carried out
    targets,      \* every list id a replacement request was sent to
    rejections,   \* invocations that ended by rejecting to the host
    input,        \* validator alone: the string under test
    shape,        \* validator alone: how the string was put together
    verdict,      \* validator alone: the result
    env,          \* the bindings the host passes to the handlers
    fetchCalls,   \* per slot: the arguments of the fetchIPv4List calls so far
    request,      \* the inbound HTTP request handled last
    returned      \* the Response the fetch handler returned for it

vars == <<lists, pc, ipv4List, validIPs, absent, listId, requests, before,
          started, created, lastOutcome, lastPut, targets, rejections,
          input, shape, verdict, env, fetchCalls, request, returned>>

runVars == <<lists, pc, ipv4List, validIPs, absent, listId, requests, before,
             started, created, lastOutcome, lastPut, targets, rejections,
             fetchCalls>>

checkVars == <<input, shape, verdict>>

hostVars == <<env, request, returned>>

Slots == 1..NumSlots

Terminal == {"DONE", "ABORTED_EMPTY", "FAILED"}

NoBody == [isArray |-> TRUE, elems |-> <<>>]

NoPut == [id |-> 0, valid |-> <<>>, after |-> <<>>]

NoRequest == [method |-> "", url |-> NoURL]

NoResponse == [status |-> 0, contentType |-> "", body |-> [text |-> ""]]

NoShape == [octets |-> <<>>, suffix |-> [kind |-> "none", n |-> 0, text |-> <<>>]]

\* one outbound request: what was sent (target list id, body) and what came
\* back (outcome, parsed reply)
Request(op, outcome, target, body, reply) ==
    [op |-> op, outcome |-> outcome, target |-> target, body |-> body,
     reply |-> reply]

RunInit ==
    /\ lists \in InitialLists
    /\ pc = [r \in Slots |-> "IDLE"]
    /\ ipv4List = [r \in Slots |-> NoBody]
    /\ validIPs = [r \in Slots |-> <<>>]
    /\ absent = [r \in Slots |-> FALSE]
    /\ listId = [r \in Slots |-> 0]
    /\ requests = [r \in Slots |-> <<>>]
    /\ before = [r \in Slots |-> <<>>]
    /\ started = 0
    /\ created = 0
    /\ lastOutcome = "none"
    /\ lastPut = NoPut
    /\ targets = {}
    /\ rejections = 0
    /\ fetchCalls = [r \in Slots |-> <<>>]

\* no inbound HTTP request has been handled
NoInbound ==
    /\ request = NoRequest
    /\ returned = NoResponse

Init ==
    /\ RunInit
    /\ input = <<>>
    /\ shape = NoShape
    /\ verdict = "idle"
    /\ env = SingleFamily
    /\ NoInbound

(***************************************************************************)
(* The scheduled handler, one action per suspension point.                 *)
(***************************************************************************)
Log(r, req) == [requests EXCEPT ![r] = Append(@, req)]

\* the host delivers one invocation at a time
NoOverlap == \A q \in Slots : pc[q] = "IDLE"

\* the host invokes scheduled(event, env, ctx)
Scheduled(r) ==
    /\ pc[r] = "IDLE"
    /\ started < MaxRuns
    /\ pc' = [pc EXCEPT ![r] = "START"]
    /\ before' = [before EXCEPT ![r] = lists]
    /\ started' = started + 1
    /\ UNCHANGED <<lists, ipv4List, validIPs, absent, listId, requests,
                   created, lastOutcome, lastPut, targets, rejections, checkVars, hostVars, fetchCalls>>

\* AfterFetch without the response.ok check
AfterFetchUnchecked(out) == "FETCHED"

\* the state after the source URL answered: if (!response.ok) throw; a body
\* that response.json() cannot read throws too
AfterFetch(out) == IF out = "ok" THEN "FETCHED" ELSE "FAILED"

\* ipv4List = await fetchIPv4List(env.IP_LIST_SOURCE_URL)
\* fetch(undefined) has no URL to request: it rejects and nothing is sent
FetchIPv4List(r) ==
    /\ pc[r] = "START"
    /\ fetchCalls' = [fetchCalls EXCEPT ![r] = Append(@, SourceURL(env))]
    /\ IF SourceURL(env) = Undefined
       THEN /\ pc' = [pc EXCEPT ![r] = "FAILED"]
            /\ UNCHANGED <<requests, ipv4List>>
       ELSE \E out \in Outcomes, data \in FeedBodies :
            /\ requests' = Log(r, Request("fetch", out, 0, <<>>, <<>>))
            /\ pc' = [pc EXCEPT ![r] = AfterFetch(out)]
            /\ ipv4List' = [ipv4List EXCEPT ![r] =
                                IF AfterFetch(out) = "FETCHED" THEN data ELSE @]
    /\ UNCHANGED <<lists, validIPs, absent, listId, before, started, created,
                   lastOutcome, lastPut, targets, rejections, checkVars, hostVars>>

\* validIPs = ipv4List.filter(validateIPv4OrCIDR); a body that is no array
\* has no filter method and the call throws
Validate(r) ==
    /\ pc[r] = "FETCHED"
    /\ IF ipv4List[r].isArray
       THEN /\ validIPs' = [validIPs EXCEPT ![r] = FilterValid(ipv4List[r].elems)]
            /\ pc' = [pc EXCEPT ![r] = "VALIDATED"]
       ELSE /\ pc' = [pc EXCEPT ![r] = "FAILED"]
            /\ UNCHANGED validIPs
    /\ UNCHANGED <<lists, ipv4List, absent, listId, requests, before, started,
                   created, lastOutcome, lastPut, targets, rejections, checkVars, hostVars, fetchCalls>>

\* if (validIPs.length === 0) { console.error(...); return; }
EmptyGuard(r) ==
    /\ pc[r] = "VALIDATED"
    /\ GuardAborts(validIPs[r])
    /\ pc' = [pc EXCEPT ![r] = "ABORTED_EMPTY"]
    /\ UNCHANGED <<lists, ipv4List, validIPs, absent, listId, requests, before,
                   started, created, lastOutcome, lastPut, targets, rejections, checkVars, hostVars, fetchCalls>>

\* getOrCreateList, first half: GET the account's lists and look for the name
LookupLists(r) ==
    /\ pc[r] = "VALIDATED"
    /\ ~GuardAborts(validIPs[r])
    /\ ~absent[r]
    /\ \E out \in Outcomes :
        LET existingList == FindByName(lists, LIST_NAME) IN
        /\ requests' = Log(r, Request("lookup", out, 0, <<>>,
                                         IF out = "ok" THEN lists ELSE <<>>))
        /\ IF out /= "ok"
           THEN /\ pc' = [pc EXCEPT ![r] = "FAILED"]
                /\ UNCHANGED <<absent, listId>>
           ELSE IF existingList /= 0
           THEN /\ listId' = [listId EXCEPT ![r] = lists[existingList].id]
                /\ pc' = [pc EXCEPT ![r] = "RESOLVED"]
                /\ UNCHANGED absent
           ELSE /\ absent' = [absent EXCEPT ![r] = TRUE]
                /\ UNCHANGED <<pc, listId>>
    /\ UNCHANGED <<lists, ipv4List, validIPs, before, started, created,
                   lastOutcome, lastPut, targets, rejections, checkVars, hostVars, fetchCalls>>

\* getOrCreateList, second half: POST a new list and take the id of the
\* response
CreateList(r) ==
    /\ pc[r] = "VALIDATED"
    /\ absent[r]
    /\ \E out \in Outcomes :
        LET body == CreateBody(LIST_NAME)
            response == CreateResponse(lists, body)
        IN
        /\ requests' = Log(r, Request("create", out, 0, body,
                                         IF out = "ok" THEN <<response.result>> ELSE <<>>))
        /\ IF out = "notok"
           THEN UNCHANGED <<lists, created>>
           ELSE /\ lists' = ListsAfterCreate(lists, body)
                /\ created' = created + 1
        /\ IF out = "ok"
           THEN /\ listId' = [listId EXCEPT ![r] = CreatedId(response)]
                /\ pc' = [pc EXCEPT ![r] = "RESOLVED"]
           ELSE /\ pc' = [pc EXCEPT ![r] = "FAILED"]
                /\ UNCHANGED listId
    /\ UNCHANGED <<ipv4List, validIPs, absent, before, started, lastOutcome,
                   lastPut, targets, rejections, checkVars, hostVars, fetchCalls>>

\* AfterPut without the updateResponse.ok check
AfterPutUnchecked(out) == "RECONCILED"

\* AfterPut that goes back to send the request again when it was refused
AfterPutRetry(out) == IF out = "ok" THEN "RECONCILED" ELSE "RESOLVED"

\* the state after the PUT answered: if (!updateResponse.ok) throw; a body
\* that updateResponse.json() cannot read rejects the returned promise
AfterPut(out) == IF out = "ok" THEN "RECONCILED" ELSE "FAILED"

\* updateListItems(listId, validIPs, env): one PUT of the whole array
UpdateListItems(r) ==
    /\ pc[r] = "RESOLVED"
    /\ \E out \in Outcomes :
        LET items == ItemsOf(validIPs[r]) IN
        /\ requests' = Log(r, Request("put", out, listId[r], items, <<>>))
        /\ targets' = targets \cup {listId[r]}
        /\ IF out = "notok"
           THEN UNCHANGED <<lists, lastPut>>
           ELSE /\ lists' = ListsAfterPut(lists, listId[r], items)
                /\ lastPut' = [id |-> listId[r], valid |-> validIPs[r],
                               after |-> ContentOf(lists', listId[r])]
        /\ pc' = [pc EXCEPT ![r] = AfterPut(out)]
    /\ UNCHANGED <<ipv4List, validIPs, absent, listId, before, started, created,
                   lastOutcome, rejections, checkVars, hostVars, fetchCalls>>

\* console.log('List updated successfully:', result) and the final log line
LogSuccess(r) ==
    /\ pc[r] = "RECONCILED"
    /\ pc' = [pc EXCEPT ![r] = "DONE"]
    /\ UNCHANGED <<lists, ipv4List, validIPs, absent, listId, requests, before,
                   started, created, lastOutcome, lastPut, targets, rejections, checkVars, hostVars, fetchCalls>>

\* how the promise of scheduled() settles from a terminal state: the early
\* return, the end of the try block and the end of the catch block all
\* resolve it
Settles(state) == "resolved"

\* scheduled() returns to the host and the invocation's locals are gone
Return(r) ==
    /\ pc[r] \in Terminal
    /\ lastOutcome' = pc[r]
    /\ rejections' = IF Settles(pc[r]) = "resolved" THEN rejections ELSE rejections + 1
    /\ pc' = [pc EXCEPT ![r] = "IDLE"]
    /\ ipv4List' = [ipv4List EXCEPT ![r] = NoBody]
    /\ validIPs' = [validIPs EXCEPT ![r] = <<>>]
    /\ absent' = [absent EXCEPT ![r] = FALSE]
    /\ listId' = [listId EXCEPT ![r] = 0]
    /\ requests' = [requests EXCEPT ![r] = <<>>]
    /\ before' = [before EXCEPT ![r] = <<>>]
    /\ fetchCalls' = [fetchCalls EXCEPT ![r] = <<>>]
    /\ UNCHANGED <<lists, started, created, lastPut, targets, checkVars, hostVars>>

\* the steps of a run already started
Step(r) ==
    \/ FetchIPv4List(r)
    \/ Validate(r)
    \/ EmptyGuard(r)
    \/ LookupLists(r)
    \/ CreateList(r)
    \/ UpdateListItems(r)
    \/ LogSuccess(r)
    \/ Return(r)

\* runs one after the other, as the cron trigger delivers them
Next == \E r \in Slots : (NoOverlap /\ Scheduled(r)) \/ Step(r)

Spec == Init /\ [][Next]_vars

\* the feed bodies answered while runs overlap: two arrays with different
\* non-empty validated sets, the empty array, and a body that is no array
OverlapBodies ==
    {[isArray |-> TRUE, elems |-> a] :
        a \in {<<IPv4(1, 2, 3, 4), CIDR(1, 2, 3, 0, 24)>>,
               <<CIDR(1, 2, 3, 0, 24), IPv4(999, 1, 1, 1)>>,
               <<>>}}
    \cup {[isArray |-> FALSE, elems |-> <<>>]}

\* two of the initial accounts: no list of the name, or one that has items
FewLists ==
    {<<OtherList(1)>>,
     <<OtherList(1),
       NamedList(2, ItemsOf(<<IPv4(9, 9, 9, 9), IPv4(1, 2, 3, 4)>>))>>}

\* the account's lists before overlapping runs
InitOverlap ==
    /\ Init
    /\ lists \in FewLists

\* an invocation takes the first free slot: which slot holds a run has no
\* meaning in the program
FirstFree(r) == \A q \in Slots : q < r => pc[q] # "IDLE"

\* runs started while another is still in flight: nothing in the handler
\* waits for, or knows of, another invocation
NextOverlap ==
    \E r \in Slots :
        \/ FirstFree(r) /\ Scheduled(r)
        \/ FetchIPv4List(r) /\ ipv4List'[r] \in OverlapBodies \cup {NoBody}
        \/ Validate(r)
        \/ EmptyGuard(r)
        \/ LookupLists(r)
        \/ CreateList(r)
        \/ UpdateListItems(r)
        \/ LogSuccess(r)
        \/ Return(r)

SpecOverlap == InitOverlap /\ [][NextOverlap]_vars

\* the host hands an inbound HTTP request to fetch(request, env, ctx) and
\* takes the Response it returns
Inbound ==
    /\ \E req \in InboundRequests :
        /\ request' = req
        /\ returned' = FetchHandler(req)
    /\ UNCHANGED <<runVars, checkVars, env>>

NextHttp == Inbound

SpecHttp == Init /\ [][NextHttp]_vars

\* runs under either set of bindings
InitConfigured ==
    /\ RunInit
    /\ lists \in FewLists
    /\ input = <<>>
    /\ shape = NoShape
    /\ verdict = "idle"
    /\ env \in Configurations
    /\ NoInbound

SpecConfigured == InitConfigured /\ [][Next]_vars

\* every awaited call settles and the handler goes on from it: a run that can
\* take a step does take one
FairSpec == SpecConfigured /\ \A r \in Slots : WF_vars(Step(r))

(***************************************************************************)
(* validateIPv4OrCIDR on its own: strings put together from four octet     *)
(* components and an optional suffix, each a number in standard decimal    *)
(* form or a text that is no number.                                       *)
(***************************************************************************)
Num(n) == [kind |-> "num", n |-> n, text |-> Decimal(n)]

Txt(t) == [kind |-> "txt", n |-> 0, text |-> t]

NoSuffix == [kind |-> "none", n |-> 0, text |-> <<>>]

\* components that are not decimal numbers
NonNumeric ==
    {Txt(<<>>), Txt(<<"a">>), Txt(<<"1", "a">>), Txt(<<"-", "1">>),
     Txt(<<" ", "1">>), Txt(<<"1", " ">>), Txt(<<"1", "\n">>),
     Txt(<<"0", "x", "1">>)}

EdgeOctets == {0, 9, 10, 99, 100, 199, 200, 249, 250, 255}

LongPrefixes == {80, 100, 128, 320}

\* the string a shape stands for
Render(sh) ==
    LET quad == Dotted(sh.octets[1].text, sh.octets[2].text,
                       sh.octets[3].text, sh.octets[4].text)
    IN  IF sh.suffix.kind = "none" THEN quad ELSE WithSuffix(quad, sh.suffix.text)

\* one octet position runs through every component, the others and the
\* suffix through the edges
OctetShapes ==
    {[octets |-> [k \in 1..4 |-> IF k = pos THEN c ELSE others[k]], suffix |-> sfx] :
        pos \in 1..4,
        c \in {Num(n) : n \in 0..MaxOctet} \cup NonNumeric,
        others \in [1..4 -> {Num(0), Num(255)}],
        sfx \in {NoSuffix, Num(7), Num(8), Num(32), Num(33)}}

\* the suffix runs through every component, the octets through the edges
SuffixShapes ==
    {[octets |-> <<Num(a), Num(b), Num(a), Num(b)>>, suffix |-> sfx] :
        a \in EdgeOctets, b \in EdgeOctets,
        sfx \in {Num(n) : n \in (0..MaxPrefix) \cup LongPrefixes} \cup NonNumeric}

Shapes == OctetShapes \cup SuffixShapes

InitValidator ==
    /\ shape \in Shapes
    /\ input = Render(shape)
    /\ verdict = "pending"
    /\ lists = <<>>
    /\ pc = [r \in Slots |-> "IDLE"]
    /\ ipv4List = [r \in Slots |-> NoBody]
    /\ validIPs = [r \in Slots |-> <<>>]
    /\ absent = [r \in Slots |-> FALSE]
    /\ listId = [r \in Slots |-> 0]
    /\ requests = [r \in Slots |-> <<>>]
    /\ before = [r \in Slots |-> <<>>]
    /\ started = 0
    /\ created = 0
    /\ lastOutcome = "none"
    /\ lastPut = NoPut
    /\ targets = {}
    /\ rejections = 0
    /\ fetchCalls = [r \in Slots |-> <<>>]
    /\ env = SingleFamily
    /\ NoInbound

\* validateIPv4OrCIDR(input)
ApplyValidator ==
    /\ verdict = "pending"
    /\ verdict' = IF validateIPv4OrCIDR(input) THEN "accept" ELSE "reject"
    /\ UNCHANGED <<input, shape, runVars, hostVars>>

NextValidator == ApplyValidator

SpecValidator == InitValidator /\ [][NextValidator]_vars

(***************************************************************************)
(* validateIPv4OrCIDR on IPv6 notation: well-formed hosts, alone or with a *)
(* prefix length.                                                          *)
(***************************************************************************)
V6Hosts ==
    {<<"2","0","0","1",":","d","b","8",":",":">>,                  \* 2001:db8::
     <<":",":","1">>,                                              \* ::1
     <<":",":">>,                                                  \* ::
     <<"f","e","8","0",":",":","1">>,                              \* fe80::1
     <<"2","0","0","1",":","d","b","8",":","0",":","0",":","0",":","0",
       ":","0",":","1">>,                                          \* 2001:db8:0:0:0:0:0:1
     <<"1",":","2",":","3",":","4",":","5",":","6",":","7",":","8">>,  \* 1:2:3:4:5:6:7:8
     <<":",":","f","f","f","f",":","1",".","2",".","3",".","4">>}  \* ::ffff:1.2.3.4

\* the string of a host, alone or followed by / and a prefix length in
\* decimal
Render6(sh) ==
    IF sh.suffix.kind = "none" THEN sh.host
    ELSE sh.host \o <<"/">> \o Decimal(sh.suffix.n)

V6Shapes ==
    {[host |-> h, suffix |-> sfx] :
        h \in V6Hosts,
        sfx \in {[kind |-> "none", n |-> 0]} \cup
                {[kind |-> "prefix", n |-> p] : p \in 0..MaxPrefix6}}

InitValidator6 ==
    /\ shape \in V6Shapes
    /\ input = Render6(shape)
    /\ verdict = "pending"
    /\ RunInit
    /\ lists = <<>>
    /\ env = SingleFamily
    /\ NoInbound

SpecValidator6 == InitValidator6 /\ [][NextValidator]_vars

(***************************************************************************)
(* Vocabulary of the properties.                                           *)
(***************************************************************************)
\* positions of the run's requests of one kind
Sent(r, op) == {k \in 1..Len(requests[r]) : requests[r][k].op = op}

\* the run's fetch succeeded and the filter has run on an array
HasValidated(r) ==
    /\ pc[r] \notin {"IDLE", "START", "FETCHED"}
    /\ Len(requests[r]) >= 1
    /\ requests[r][1].op = "fetch"
    /\ requests[r][1].outcome = "ok"
    /\ ipv4List[r].isArray

\* the step sends a request of that kind for run r
Sends(r, op) ==
    /\ Len(requests'[r]) = Len(requests[r]) + 1
    /\ requests'[r][Len(requests'[r])].op = op

RECURSIVE KeptRecords(_)
\* entry by entry: an accepted entry gives one record, a rejected one none
KeptRecords(elems) ==
    IF elems = <<>> THEN <<>>
    ELSE (IF validateIPv4OrCIDR(Head(elems)) THEN <<[ip |-> Head(elems)]>> ELSE <<>>)
         \o KeptRecords(Tail(elems))

\* C1: a run whose validated set is empty sends nothing but the fetch, stays
\* out of FAILED (it stops in ABORTED_EMPTY) and leaves the lists as they
\* were when it started.
C1_EmptyGuard ==
    \A r \in Slots :
        (HasValidated(r) /\ validIPs[r] = <<>>) =>
            /\ pc[r] \in {"VALIDATED", "ABORTED_EMPTY"}
            /\ Sent(r, "lookup") = {}
            /\ Sent(r, "create") = {}
            /\ Sent(r, "put") = {}
            /\ lists = before[r]

C1_Witness ==
    \E r \in Slots :
        /\ pc[r] = "ABORTED_EMPTY"
        /\ Len(ipv4List[r].elems) = 2
        /\ ContentOf(lists, 2) /= <<>>

\* C2: when a run is RECONCILED or DONE, the list it addressed holds exactly
\* the run's validated set, in order, and nothing of what it held before.
C2_FullReplace ==
    \A r \in Slots :
        pc[r] \in {"RECONCILED", "DONE"} =>
            /\ ContentOf(lists, listId[r]) = validIPs[r]
            /\ \A k \in 1..Len(lists) :
                   lists[k].id = listId[r] => Len(lists[k].items) = Len(validIPs[r])

C2_Witness ==
    \E r \in Slots :
        /\ pc[r] = "DONE"
        /\ ContentOf(before[r], listId[r]) = <<IPv4(9, 9, 9, 9), IPv4(1, 2, 3, 4)>>
        /\ validIPs[r] = <<CIDR(1, 2, 3, 0, 24)>>

\* C3: after a successful lookup, a reply that holds a list named LIST_NAME
\* means no creation request and one of those ids as the run's list id; a
\* reply without one means one creation request of kind "ip" (none while it
\* is still to be sent), whose returned id is the run's list id; every
\* replacement request goes to the run's list id.
C3_FindOrCreate ==
    \A r \in Slots :
        \A k \in Sent(r, "lookup") :
            requests[r][k].outcome = "ok" =>
                LET reply == requests[r][k].reply
                    named == {j \in 1..Len(reply) : reply[j].name = LIST_NAME}
                    creates == Sent(r, "create")
                IN  /\ named /= {} =>
                        /\ creates = {}
                        /\ listId[r] \in {reply[j].id : j \in named}
                    /\ named = {} =>
                        /\ Cardinality(creates) = (IF pc[r] = "VALIDATED" THEN 0 ELSE 1)
                        /\ \A c \in creates :
                            /\ requests[r][c].body.kind = "ip"
                            /\ requests[r][c].body.name = LIST_NAME
                            /\ requests[r][c].outcome = "ok" =>
                                 listId[r] = requests[r][c].reply[1].id
                    /\ \A q \in Sent(r, "put") :
                        /\ requests[r][q].target = listId[r]
                        /\ listId[r] \in IdsNamed(lists, LIST_NAME)

C3_Witness ==
    \E r \in Slots :
        /\ pc[r] = "DONE"
        /\ Sent(r, "create") /= {}
        /\ before[r] = <<OtherList(1)>>
        /\ requests[r][4].target = 2

\* the moves of one run the state machine allows, with the invocation's
\* start and return
AllowedMoves ==
    {<<"IDLE", "START">>, <<"START", "FETCHED">>, <<"FETCHED", "VALIDATED">>,
     <<"VALIDATED", "ABORTED_EMPTY">>, <<"VALIDATED", "RESOLVED">>,
     <<"RESOLVED", "RECONCILED">>, <<"RECONCILED", "DONE">>}
    \cup {<<st, "FAILED">> :
            st \in {"START", "FETCHED", "VALIDATED", "RESOLVED", "RECONCILED"}}
    \cup {<<st, "IDLE">> : st \in Terminal}

\* C4: every step moves a run along START -> FETCHED -> VALIDATED ->
\* (ABORTED_EMPTY | RESOLVED -> RECONCILED -> DONE) or to FAILED; a
\* replacement request is sent only from RESOLVED, right after a successful
\* lookup or creation of the same run that gave the list id; a lookup is sent
\* only after a successful fetch and a non-empty validated set; a creation is
\* sent only right after a successful lookup.
C4_StepOrder ==
    [][\A r \in Slots :
        /\ pc'[r] /= pc[r] => <<pc[r], pc'[r]>> \in AllowedMoves
        /\ Sends(r, "put") =>
            /\ pc[r] = "RESOLVED"
            /\ LET last == requests[r][Len(requests[r])]
               IN  /\ last.op \in {"lookup", "create"}
                   /\ last.outcome = "ok"
                   /\ listId[r] \in {last.reply[j].id : j \in 1..Len(last.reply)}
        /\ Sends(r, "lookup") =>
            /\ pc[r] = "VALIDATED"
            /\ HasValidated(r)
            /\ validIPs[r] /= <<>>
            /\ Len(requests[r]) = 1
        /\ Sends(r, "create") =>
            /\ pc[r] = "VALIDATED"
            /\ requests[r][Len(requests[r])].op = "lookup"
            /\ requests[r][Len(requests[r])].outcome = "ok"
        /\ Sends(r, "fetch") => pc[r] = "START" /\ requests[r] = <<>>
      ]_vars

C4_Witness ==
    \E r \in Slots :
        /\ pc[r] = "DONE"
        /\ [k \in 1..Len(requests[r]) |-> requests[r][k].op] = <<"fetch", "lookup", "put">>

\* C5: a request that did not succeed is the run's last request and the run
\* is FAILED; no kind of request is sent twice in a run; no invocation has
\* rejected to the host.
C5_FailStop ==
    /\ \A r \in Slots :
        /\ \A k \in 1..Len(requests[r]) :
              requests[r][k].outcome /= "ok" =>
                  k = Len(requests[r]) /\ pc[r] = "FAILED"
        /\ \A op \in {"fetch", "lookup", "create", "put"} :
              Cardinality(Sent(r, op)) <= 1
    /\ rejections = 0

C5_Witness ==
    /\ lastOutcome = "FAILED"
    /\ \E r \in Slots :
        /\ pc[r] = "FAILED"
        /\ Len(requests[r]) = 4
        /\ requests[r][3].op = "create"
        /\ requests[r][4].outcome = "notok"

\* C6: the body of a replacement request is one {ip: literal} record per
\* accepted entry of the fetched array, in the array's order, duplicates
\* kept, nothing rejected in it, and no longer than the array; the example
\* feed gives 1.2.3.4 and 1.2.3.0/24.
C6_PayloadIsFilteredFeed ==
    \A r \in Slots :
        \A q \in Sent(r, "put") :
            LET sent == requests[r][q].body
                elems == ipv4List[r].elems
            IN  /\ sent = KeptRecords(elems)
                /\ Len(sent) <= Len(elems)
                /\ \A k \in 1..Len(sent) : validateIPv4OrCIDR(sent[k].ip)
                /\ elems = ExampleFeed =>
                       sent = <<[ip |-> IPv4(1, 2, 3, 4)], [ip |-> CIDR(1, 2, 3, 0, 24)]>>

C6_Witness ==
    \E r \in Slots :
        /\ Sent(r, "put") /= {}
        /\ ipv4List[r].elems = ExampleFeed

\* the components of a shape, octets and suffix
Components(sh) == {sh.octets[k] : k \in 1..4} \cup {sh.suffix}

\* C7: four decimal octets in 0..255 are accepted bare and with every suffix
\* /8../32; an octet above 255, a numeric suffix outside 8..32 or a
\* component that is no number makes the validator reject.
C7_ValidatorIPv4 ==
    verdict \in {"accept", "reject"} =>
        LET octetsInRange ==
                \A k \in 1..4 : shape.octets[k].kind = "num" /\ shape.octets[k].n <= 255
            suffixInRange ==
                \/ shape.suffix.kind = "none"
                \/ shape.suffix.kind = "num" /\ shape.suffix.n \in 8..32
        IN  /\ (octetsInRange /\ suffixInRange) => verdict = "accept"
            /\ (\E k \in 1..4 : shape.octets[k].kind = "num" /\ shape.octets[k].n > 255)
                  => verdict = "reject"
            /\ (shape.suffix.kind = "num" /\ shape.suffix.n \notin 8..32)
                  => verdict = "reject"
            /\ (\E c \in Components(shape) : c.kind = "txt") => verdict = "reject"

C7_Witness ==
    /\ verdict = "accept"
    /\ input = CIDR(255, 0, 249, 255, 32)

\* C8: with runs one after the other, every replacement request ever sent
\* went to one and the same list id, the service carried out at most one
\* creation, and a run that started with a list named LIST_NAME in place
\* sends no creation request.
C8_StableListId ==
    /\ Cardinality(targets) <= 1
    /\ created <= 1
    /\ \A r \in Slots :
        (pc[r] /= "IDLE" /\ IdsNamed(before[r], LIST_NAME) /= {}) =>
            /\ Sent(r, "create") = {}
            /\ \A q \in Sent(r, "put") :
                  requests[r][q].target \in IdsNamed(before[r], LIST_NAME)

C8_Witness ==
    \E r \in Slots :
        /\ started = 2
        /\ created = 1
        /\ lastOutcome = "DONE"
        /\ pc[r] = "DONE"
        /\ Sent(r, "create") = {}
        /\ targets = {listId[r]}

\* the step in which the service carries out run r's replacement
Replaces(r) ==
    /\ Sends(r, "put")
    /\ requests'[r][Len(requests'[r])].outcome /= "notok"

\* C9: when the service carries out a replacement for the list id and the
\* validated set of the replacement it carried out last, the list's content
\* afterwards is its content after that earlier replacement.
C9_Idempotent ==
    [][\A r \in Slots :
        (/\ Replaces(r)
         /\ lastPut.id /= 0
         /\ lastPut.id = listId[r]
         /\ lastPut.valid = validIPs[r]) =>
            /\ ContentOf(lists', listId[r]) = lastPut.after
            /\ ItemsOfList(lists', listId[r]) = ItemsOfList(lists, listId[r])
      ]_vars

C9_Witness ==
    \E r \in Slots :
        /\ pc[r] = "DONE"
        /\ lastOutcome = "DONE"
        /\ targets = {listId[r]}
        /\ Len(validIPs[r]) = 2
        /\ ContentOf(before[r], listId[r]) = validIPs[r]
        /\ lastPut = [id |-> listId[r], valid |-> validIPs[r], after |-> validIPs[r]]

\* every request of the run so far succeeded
AllSucceeded(r) ==
    \A k \in 1..Len(requests[r]) : requests[r][k].outcome = "ok"

\* C10: a run that follows a FAILED run, has a non-empty validated set and
\* has reached a terminal state with every request successful is DONE, its
\* list holds exactly its validated set, and the service has carried out at
\* most one creation over both runs.
C10_SelfHealing ==
    \A r \in Slots :
        (/\ lastOutcome = "FAILED"
         /\ pc[r] \in Terminal
         /\ HasValidated(r)
         /\ validIPs[r] /= <<>>
         /\ AllSucceeded(r)) =>
            /\ pc[r] = "DONE"
            /\ ContentOf(lists, listId[r]) = validIPs[r]
            /\ created <= 1
            /\ Cardinality(IdsNamed(lists, LIST_NAME))
                 <= Cardinality(IdsNamed(before[r], LIST_NAME) \cup {listId[r]})

C10_Witness ==
    \E r \in Slots :
        /\ lastOutcome = "FAILED"
        /\ pc[r] = "DONE"
        /\ created = 1
        /\ Sent(r, "create") = {}
        /\ ItemsOfList(before[r], listId[r]) = <<>>


(***************************************************************************)
(* The target of a run.                                                    *)
(***************************************************************************)
\* the list with that id was there when run r started
ExistedBefore(r, id) == \E k \in 1..Len(before[r]) : before[r][k].id = id

\* id is the id of the first list of that lookup result whose name is
\* exactly LIST_NAME
FirstNamedIn(result, id) ==
    \E j \in 1..Len(result) :
        /\ result[j].id = id
        /\ result[j].name = LIST_NAME
        /\ \A m \in 1..(j - 1) : result[m].name /= LIST_NAME

\* run r's lookup result held the list id as the first one named LIST_NAME
FoundByRun(r, id) ==
    \E i \in Sent(r, "lookup") :
        requests[r][i].outcome = "ok" /\ FirstNamedIn(requests[r][i].reply, id)

\* run r created the list id under the name LIST_NAME before request k
CreatedByRun(r, id, k) ==
    \E i \in Sent(r, "create") :
        /\ i < k
        /\ requests[r][i].outcome = "ok"
        /\ requests[r][i].reply[1].id = id
        /\ requests[r][i].reply[1].name = LIST_NAME
        /\ ~ExistedBefore(r, id)

\* C12: a run sends at most one replacement request; its target is the
\* first list named exactly LIST_NAME in the run's lookup result, or the list
\* the run created itself; no replacement ever addresses a list with another
\* name, and the lists with another name are as they were when the run
\* started
C12_SingleTargetByName ==
    /\ \A r \in Slots :
        /\ Cardinality(Sent(r, "put")) <= 1
        /\ \A k \in Sent(r, "put") :
            \/ FoundByRun(r, requests[r][k].target)
            \/ CreatedByRun(r, requests[r][k].target, k)
        /\ pc[r] /= "IDLE" =>
            \A j \in 1..Len(before[r]) :
                before[r][j].name /= LIST_NAME => lists[j] = before[r][j]
    /\ \A t \in targets : \A j \in 1..Len(lists) :
        lists[j].id = t => lists[j].name = LIST_NAME

\* a finished run whose lookup result held two lists named LIST_NAME and one
\* named otherwise: it wrote the first of the two and only that one
C12_Witness ==
    \E r \in Slots :
        /\ pc[r] = "DONE"
        /\ Cardinality(IdsNamed(before[r], LIST_NAME)) = 2
        /\ IdsNamed(before[r], OtherName) /= {}
        /\ \E k \in Sent(r, "put") :
            /\ FoundByRun(r, requests[r][k].target)
            /\ requests[r][k].target = listId[r]
        /\ ContentOf(lists, listId[r]) = validIPs[r]
        /\ ContentOf(lists, listId[r]) /= ContentOf(before[r], listId[r])
        /\ \A j \in 1..Len(lists) : lists[j].id /= listId[r] => lists[j] = before[r][j]

\* run r's creation request was carried out by the service
CreationCarriedOut(r) ==
    \E i \in 1..Len(requests[r]) :
        /\ requests[r][i].op = "create"
        /\ requests[r][i].outcome /= "notok"

(***************************************************************************)
(* What a run that did not succeed leaves behind.                          *)
(***************************************************************************)
Unsuccessful(r) == pc[r] \in {"FAILED", "ABORTED_EMPTY"}

\* the lists that were there when run r started are all still there, in
\* their places
KeepsLists(r) ==
    /\ Len(lists) >= Len(before[r])
    /\ \A j \in 1..Len(before[r]) : lists[j].id = before[r][j].id

\* the service carried out run r's replacement request, whatever the run
\* made of the response
PutCarriedOut(r) ==
    \E k \in Sent(r, "put") : requests[r][k].outcome /= "notok"

\* as the specification states it: an unsuccessful run leaves the items of every list
\* it found untouched, and leaves behind either nothing or one new empty
\* list named LIST_NAME, the latter only after a creation that succeeded
\* and a replacement request that failed
C16_FailedRunChangesNoItems ==
    \A r \in Slots :
        Unsuccessful(r) =>
            /\ KeepsLists(r)
            /\ \A j \in 1..Len(before[r]) : lists[j].items = before[r][j].items
            /\ \/ lists = before[r]
               \/ /\ Len(lists) = Len(before[r]) + 1
                  /\ lists[Len(lists)].name = LIST_NAME
                  /\ lists[Len(lists)].items = <<>>
                  /\ \E i \in Sent(r, "create") : requests[r][i].outcome = "ok"
                  /\ \E k \in Sent(r, "put") : requests[r][k].outcome /= "ok"

\* C16: an unsuccessful run changes the items of a list only when the
\* service carried out its replacement request and the run could not read
\* the answer, and then that one list, named LIST_NAME, holds the run's
\* validated set; every other list it found is as it was. It adds at most
\* one list, named LIST_NAME, only when its lookup showed none and the
\* service carried out its creation request (the run failing at the
\* creation's answer or at the replacement), and that list is empty unless
\* the replacement was carried out. A run that ends ABORTED_EMPTY changes
\* nothing.
C16_FailedRunFrame ==
    \A r \in Slots :
        Unsuccessful(r) =>
            /\ KeepsLists(r)
            /\ \A j \in 1..Len(lists) :
                IF PutCarriedOut(r) /\ lists[j].id = listId[r]
                THEN /\ lists[j].name = LIST_NAME
                     /\ lists[j].items = [k \in 1..Len(validIPs[r]) |-> [ip |-> validIPs[r][k]]]
                ELSE IF j <= Len(before[r])
                THEN lists[j] = before[r][j]
                ELSE lists[j].name = LIST_NAME /\ lists[j].items = <<>>
            /\ Len(lists) = Len(before[r]) + (IF CreationCarriedOut(r) THEN 1 ELSE 0)
            /\ CreationCarriedOut(r) => IdsNamed(before[r], LIST_NAME) = {}
            /\ pc[r] = "ABORTED_EMPTY" => lists = before[r] /\ Sent(r, "lookup") = {}

\* a run ended FAILED although the service had replaced the items of a list
\* that existed before the run: the answer to its replacement request could
\* not be read
C16_Witness ==
    \E r \in Slots :
        /\ pc[r] = "FAILED"
        /\ PutCarriedOut(r)
        /\ ExistedBefore(r, listId[r])
        /\ ContentOf(lists, listId[r]) = validIPs[r]
        /\ ContentOf(before[r], listId[r]) /= validIPs[r]

(***************************************************************************)
(* The source fetch.                                                       *)
(***************************************************************************)
\* the sources a set of bindings configures, in order: the single one, or
\* the IPv4 one and then the IPv6 one
ConfiguredSources(e) ==
    IF e.IP_LIST_SOURCE_URL /= Undefined
    THEN <<e.IP_LIST_SOURCE_URL>>
    ELSE <<e.IPV4_LIST_SOURCE_URL, e.IPV6_LIST_SOURCE_URL>>

\* run r is past its fetch stage
PastFetch(r) == pc[r] \notin {"IDLE", "START"}

\* as the specification states it: a run past its fetch stage has fetched configured
\* sources in their order, one request each, and all of them when it went on
C13_FetchPerConfiguredSource ==
    \A r \in Slots :
        PastFetch(r) =>
            /\ fetchCalls[r] /= <<>>
            /\ Len(fetchCalls[r]) <= Len(ConfiguredSources(env))
            /\ \A k \in 1..Len(fetchCalls[r]) :
                k <= Len(ConfiguredSources(env)) =>
                    fetchCalls[r][k] = ConfiguredSources(env)[k]
            /\ Cardinality(Sent(r, "fetch")) = Len(fetchCalls[r])
            /\ pc[r] /= "FAILED" => fetchCalls[r] = ConfiguredSources(env)

\* C13: under either set of bindings a run calls fetchIPv4List once, with
\* env.IP_LIST_SOURCE_URL and nothing else; it sends one fetch request when
\* that binding is set, and when it is not set (the dual-stack bindings)
\* it sends no request at all and ends FAILED; what it validates is the
\* array of that one response
C13_OneFetchOfTheOneBinding ==
    \A r \in Slots :
        PastFetch(r) =>
            /\ fetchCalls[r] = <<env.IP_LIST_SOURCE_URL>>
            /\ \A k \in 1..Len(fetchCalls[r]) :
                fetchCalls[r][k] \notin
                    {env.IPV4_LIST_SOURCE_URL, env.IPV6_LIST_SOURCE_URL} \ {Undefined}
            /\ Cardinality(Sent(r, "fetch")) =
                    IF env.IP_LIST_SOURCE_URL = Undefined THEN 0 ELSE 1
            /\ env.IP_LIST_SOURCE_URL = Undefined =>
                    pc[r] = "FAILED" /\ requests[r] = <<>>
            /\ pc[r] \notin {"FETCHED", "FAILED"} =>
                    /\ ipv4List[r].isArray
                    /\ validIPs[r] = SelectSeq(ipv4List[r].elems, validateIPv4OrCIDR)

\* a run under the dual-stack bindings: it called fetchIPv4List with the
\* unset binding, sent nothing and ended FAILED, the lists untouched
C13_Witness ==
    \E r \in Slots :
        /\ env = DualStack
        /\ pc[r] = "FAILED"
        /\ fetchCalls[r] = <<Undefined>>
        /\ requests[r] = <<>>
        /\ lists = before[r]

(***************************************************************************)
(* Overlapping runs.                                                       *)
(***************************************************************************)
\* run r's lookup was answered with a result holding no list of the name
SawAbsent(r) ==
    \E i \in 1..Len(requests[r]) :
        /\ requests[r][i].op = "lookup"
        /\ requests[r][i].outcome = "ok"
        /\ IdsNamed(requests[r][i].reply, LIST_NAME) = {}

\* C11: a run whose lookup found no list of the name can always send its
\* creation request, whatever the other runs have done since (nothing makes
\* it wait or look again), and when two runs in flight both saw the list
\* absent and both had their creation carried out, two lists named LIST_NAME
\* exist
C11_FindOrCreateRace ==
    \A r \in Slots :
        /\ (pc[r] = "VALIDATED" /\ absent[r]) => ENABLED CreateList(r)
        /\ \A q \in Slots \ {r} :
            (SawAbsent(r) /\ SawAbsent(q) /\
             CreationCarriedOut(r) /\ CreationCarriedOut(q))
                => Cardinality(IdsNamed(lists, LIST_NAME)) >= 2

\* two runs in flight, no list of the name when either looked, both created
\* one, and both got an id back: two lists of the name exist
C11_Witness ==
    \E r \in Slots : \E q \in Slots \ {r} :
        /\ IdsNamed(before[r], LIST_NAME) = {}
        /\ IdsNamed(before[q], LIST_NAME) = {}
        /\ SawAbsent(r) /\ SawAbsent(q)
        /\ Sent(r, "create") /= {} /\ Sent(q, "create") /= {}
        /\ pc[r] = "RESOLVED" /\ pc[q] = "RESOLVED"
        /\ listId[r] /= listId[q]
        /\ IdsNamed(lists, LIST_NAME) = {listId[r], listId[q]}

\* run r sent exactly one replacement request, to its target, carrying one
\* record per entry of its validated set, in order
OneWholePut(r) ==
    /\ Cardinality(Sent(r, "put")) = 1
    /\ \A k \in Sent(r, "put") :
        /\ requests[r][k].target = listId[r]
        /\ requests[r][k].body = [j \in 1..Len(validIPs[r]) |-> [ip |-> validIPs[r][j]]]

\* C18: when the only two runs so far are in flight together, both target
\* the same list that existed before either started, and both have finished
\* successfully, each has sent a single replacement request carrying its
\* whole validated set, and the list's content is the whole validated set of
\* one of the two, the one whose replacement the service applied last; it
\* is never a mixture of both
C18_LastWriterWins ==
    \A r \in Slots : \A q \in Slots \ {r} :
        (/\ started = 2
         /\ pc[r] = "DONE" /\ pc[q] = "DONE"
         /\ listId[r] = listId[q]
         /\ ExistedBefore(r, listId[r]) /\ ExistedBefore(q, listId[q]))
        => /\ OneWholePut(r) /\ OneWholePut(q)
           /\ ContentOf(lists, listId[r]) \in {validIPs[r], validIPs[q]}
           /\ lastPut.id = listId[r]
           /\ ContentOf(lists, listId[r]) = lastPut.valid

\* two runs with different validated sets wrote the same existing list while
\* both were in flight; the list holds the set of one and nothing of the
\* other's or of what it held before
C18_Witness ==
    \E r \in Slots : \E q \in Slots \ {r} :
        /\ started = 2
        /\ pc[r] = "DONE" /\ pc[q] = "DONE"
        /\ listId[r] = listId[q]
        /\ ExistedBefore(r, listId[r]) /\ ExistedBefore(q, listId[q])
        /\ ContentOf(before[r], listId[r]) /= <<>>
        /\ ContentOf(before[r], listId[r]) = ContentOf(before[q], listId[q])
        /\ validIPs[r] /= validIPs[q]
        /\ ContentOf(lists, listId[r]) = validIPs[r]
        /\ Len(validIPs[r]) < Len(validIPs[q])

(***************************************************************************)
(* IPv6 notation.                                                          *)
(***************************************************************************)
\* the string under test is a well-formed IPv6 host, alone or with a prefix
\* length of 0 to 128
WellFormed6 ==
    /\ shape.host \in V6Hosts
    /\ shape.suffix.kind = "prefix" => shape.suffix.n \in 0..128

\* as the specification states it: the validator accepts every well-formed IPv6 host
\* and every IPv6 block with prefix 0 to 128
C14_AcceptsIPv6 ==
    (verdict /= "pending" /\ WellFormed6) => verdict = "accept"

\* C14: the validator rejects every string in IPv6 notation, host or block,
\* whatever the prefix length, the IPv4-mapped form included; the filter
\* drops such an entry from the validated set and from the payload, and
\* keeps the IPv4 entry next to it
C14_RejectsIPv6 ==
    verdict /= "pending" =>
        /\ verdict = "reject"
        /\ ~validateIPv4OrCIDR(input)
        /\ FilterValid(<<input>>) = <<>>
        /\ ItemsOf(FilterValid(<<IPv4(1, 1, 1, 1), input>>)) = <<[ip |-> IPv4(1, 1, 1, 1)]>>

\* the block 2001:db8::/32 has been through the validator and was rejected
C14_Witness ==
    /\ input = <<"2","0","0","1",":","d","b","8",":",":","/","3","2">>
    /\ verdict = "reject"

(***************************************************************************)
(* Inbound HTTP requests.                                                  *)
(***************************************************************************)
\* the paths as written that name /info
WrittenInfo ==
    {<<"info">>, <<".", "info">>, <<"%2e", "info">>, <<"a", "..", "info">>}

\* the handled request changed
Handled == request' /= request \/ returned' /= returned

\* C15: the response to the request handled last is 200 with the JSON
\* status body when the method is GET and the path is /info, 404 when the
\* method is GET and the path is anything else, and 405 when the method is
\* not GET, whatever the path; handling a request starts no run, sends no
\* outbound request and leaves the lists alone
C15_Routing ==
    /\ [](request /= NoRequest =>
            /\ (request.method = "GET" /\ request.url.segments \in WrittenInfo)
                => /\ returned.status = 200
                   /\ returned.contentType = "application/json"
                   /\ returned.body = [json |-> InfoBody]
            /\ (request.method = "GET" /\ request.url.segments \notin WrittenInfo)
                => returned.status = 404
            /\ request.method /= "GET" => returned.status = 405)
    /\ [][Handled =>
            /\ pc' = pc /\ started' = started
            /\ requests' = requests /\ fetchCalls' = fetchCalls
            /\ lists' = lists /\ targets' = targets /\ created' = created]_vars

\* a POST to /info was answered 405: the method is looked at first
C15_Witness ==
    /\ request.method = "POST"
    /\ request.url.segments = <<"info">>
    /\ returned.status = 405
    /\ returned.body = [text |-> "Method Not Allowed"]
    /\ \A r \in Slots : pc[r] = "IDLE" /\ requests[r] = <<>>

(***************************************************************************)
(* Termination.                                                            *)
(***************************************************************************)
RequestKinds == {"fetch", "lookup", "create", "put"}

\* C17: when every awaited call settles, a started run reaches DONE,
\* ABORTED_EMPTY or FAILED; at no point has it sent more than one request
\* of any kind (source fetch, lookup, creation, replacement); and from a
\* terminal state it does nothing but return: it sends nothing, changes no
\* list and moves to no other state
C17_RunTerminates ==
    /\ \A r \in Slots : (pc[r] = "START") ~> (pc[r] \in Terminal)
    /\ [](\A r \in Slots : \A op \in RequestKinds : Cardinality(Sent(r, op)) <= 1)
    /\ [][\A r \in Slots :
            pc[r] \in Terminal =>
                /\ pc'[r] \in {pc[r], "IDLE"}
                /\ requests'[r] \in {requests[r], <<>>}
                /\ lists' = lists]_vars

\* a run that sent one request of each of the four kinds and is DONE
C17_Witness ==
    \E r \in Slots :
        /\ pc[r] = "DONE"
        /\ \A op \in RequestKinds : Cardinality(Sent(r, op)) = 1
        /\ Len(requests[r]) = 4
=============================================================================
